---- MODULE Spec2Model ----
(***************************************************************************)
(* A model of xctl's configuration repository and of the services that     *)
(* read and write the live Xray configuration file.                        *)
(*                                                                         *)
(* Each process of Procs is one invocation of the tool at a time (a        *)
(* terminal session).  An invocation runs one operation: the repository's  *)
(* atomic_write scope with some caller's block, a call of UserService      *)
(* (add_user, remove_user, get_users, get_user_link) or of SystemService   *)
(* (get_backups, restore_backup).  Every step that touches the file system *)
(* or the container is one action, so that invocations interleave exactly  *)
(* where the operating system lets them.                                   *)
(*                                                                         *)
(* RealityHandler.on_initialize, DomainVerifier.verify and                 *)
(* DockerController.get_traffic_stats share no state with the repository;  *)
(* each has a variable and a specification of its own.                     *)
(***************************************************************************)
EXTENDS Integers, Sequences, FiniteSets, TLC

\* ------------------------------------------------------------------ bounds

\* Seconds that may pass on the wall clock during a run.
MaxSeconds == 2

\* Invocations of the tool started during a run.
MaxCalls == 2

\* Inbounds in a configuration document.
MaxInbounds == 2

\* Resolution of the model's clock: instants per second.  strftime cuts the
\* instant down to its second.
TicksPerSecond == 3

\* `while len(backups) > 10` in _create_backup.
MaxBackups == 10

Procs == {"p1", "p2"}

Aliases == {"alice", "bob"}

NoProc == "none"

\* ------------------------------------------------------------------ state

VARIABLES
    win32,       \* sys.platform == 'win32' or fcntl is None
    liveFile,    \* content of config.json
    backups,     \* backups/config.<timestamp>.json: timestamp -> content
    clock,       \* the wall clock, in instants
    lockHolder,  \* the invocation holding flock(LOCK_EX) on config.lock
    nextUuid,    \* the next value uuid.uuid4() returns
    pc,          \* where each invocation is
    op,          \* the operation each invocation runs, and its argument
    config,      \* each invocation's in-memory document
    blist,       \* _create_backup's local list `backups`
    exc,         \* the exception travelling through atomic_write's finally
    ret,         \* what the invocation returned or raised
    newUuid,     \* add_user's local new_uuid
    link,        \* the link add_user or get_user_link returned
    users,       \* the list get_users returned
    files,       \* the list get_backups returned
    pubKey,      \* settings.XRAY_PUB_KEY
    trace,       \* what the invocation has done to the outside world so far
    pre,         \* history: the file system as the invocation found it
    prev,        \* history: the session's previous invocation and its outcome
    taken,       \* history: the backup this invocation created
    latest,      \* history: the name of the backup created last
    calls,       \* history: invocations started so far
    successes,   \* history: atomic_write scopes that saved
    unlinks,     \* history: what the eviction loops deleted and failed to delete
    initialize,  \* a RealityHandler.on_initialize call: arguments, locals, outcome
    verify,      \* a DomainVerifier.verify call: arguments, locals, outcome
    stats        \* a DockerController.get_traffic_stats call: locals, outcome

vars == <<win32, liveFile, backups, clock, lockHolder, nextUuid, pc, op, config,
          blist, exc, ret, newUuid, link, users, files, pubKey, trace, pre, prev,
          taken, latest, calls, successes, unlinks, initialize, verify, stats>>

\* The calls that share no state with the repository.
tools == <<initialize, verify, stats>>

\* ------------------------------------------------------------------ documents

\* One client record; flow is the constant "xtls-rprx-vision".
Client(email, id) == [email |-> email, id |-> id]

\* One inbound: what inbound.get('protocol') and
\* inbound.get('streamSettings', {}).get('security') yield ("None" where a key
\* is missing), and settings.clients.
Inbound(protocol, security, clients) ==
    [protocol |-> protocol, security |-> security, clients |-> clients]

\* An inbound whose realitySettings carry a spiderX path.
InboundSpx(protocol, security, clients, spx) ==
    [protocol |-> protocol, security |-> security, clients |-> clients,
     spiderX |-> spx]

\* The content of a file: absent, zero bytes, bytes that are no JSON document,
\* or a JSON document (its inbounds).
NoFile == [kind |-> "none", doc |-> <<>>]
Empty == [kind |-> "empty", doc |-> <<>>]
Garbled == [kind |-> "garbled", doc |-> <<>>]
Json(doc) == [kind |-> "json", doc |-> doc]

\* A JSON document without the 'inbounds' key: config.get('inbounds', [])
\* yields the empty list for it.
Bare == [kind |-> "bare", doc |-> <<>>]

Exists(file) == file.kind # "none"

\* user_service._find_vless_inbound: index of the first inbound with protocol
\* 'vless' and security 'reality', 0 when there is none (XrayError).
RECURSIVE FirstMatch(_, _)
FirstMatch(doc, i) ==
    IF i > Len(doc) THEN 0
    ELSE IF doc[i].protocol = "vless" /\ doc[i].security = "reality" THEN i
    ELSE FirstMatch(doc, i + 1)

\* The loop without its early return: the last matching inbound wins.
RECURSIVE LastMatch(_, _)
LastMatch(doc, i) ==
    IF i = 0 THEN 0
    ELSE IF doc[i].protocol = "vless" /\ doc[i].security = "reality" THEN i
    ELSE LastMatch(doc, i - 1)

FindLastVlessInbound(doc) == LastMatch(doc, Len(doc))

FindVlessInbound(doc) == FirstMatch(doc, 1)

Emails(clients) == {clients[i].email : i \in 1..Len(clients)}

\* The aliases of the first VLESS+Reality inbound of a file, {} when there is none.
FileAliases(file) ==
    IF file.kind = "json" /\ FindVlessInbound(file.doc) # 0
    THEN Emails(file.doc[FindVlessInbound(file.doc)].clients)
    ELSE {}

\* [c for c in clients if c.get('email') != email]
RECURSIVE Without(_, _)
Without(clients, email) ==
    IF clients = <<>> THEN <<>>
    ELSE IF Head(clients).email = email THEN Without(Tail(clients), email)
    ELSE <<Head(clients)>> \o Without(Tail(clients), email)

WithClients(doc, i, clients) == [doc EXCEPT ![i].clients = clients]

\* The length of the serialized document grows with its client records.
RECURSIVE Size(_)
Size(doc) == IF doc = <<>> THEN 1 ELSE Len(Head(doc).clients) + 1 + Size(Tail(doc))

\* ------------------------------------------------------------------ repository

\* ConfigRepository.load: the exception it raises, "" when it returns.
LoadError(file) ==
    IF ~Exists(file) THEN "ConfigNotFoundError"
    ELSE IF file.kind \notin {"json", "bare"} THEN "JsonDecodeError"
    ELSE ""

\* json.dump into a file opened with 'w' by this writer: the bytes go in from
\* offset 0.  If another writer put a longer document there after this writer's
\* open truncated the file, its tail stays behind the new document.
DumpOver(cur, doc) ==
    IF cur.kind = "json" /\ Size(cur.doc) > Size(doc) THEN {Garbled}
    ELSE IF cur.kind = "garbled" THEN {Garbled, Json(doc)}
    ELSE {Json(doc)}

\* strftime("%Y-%m-%d_%H-%M-%S"): the instant cut down to its second.  The
\* zero-padded names sort as the seconds do.
Timestamp(now) == now \div TicksPerSecond

RECURSIVE Sorted(_)
Sorted(S) ==
    IF S = {} THEN <<>>
    ELSE LET m == CHOOSE x \in S : \A y \in S : x <= y
         IN <<m>> \o Sorted(S \ {m})

\* sorted(self.backup_dir.glob("config.*.json"))
Glob(dir) == Sorted(DOMAIN dir)

\* shutil.copy2(src, backups/config.<ts>.json)
Put(dir, ts, content) ==
    [t \in (DOMAIN dir) \cup {ts} |-> IF t = ts THEN content ELSE dir[t]]

\* Path.unlink()
Remove(dir, ts) == [t \in (DOMAIN dir) \ {ts} |-> dir[t]]

\* ------------------------------------------------------------------ initial states

Doc0 == <<Inbound("vless", "reality", <<>>)>>

InitSecond == MaxBackups - 1

NoBackup == [ts |-> 0, content |-> NoFile]

NoOp == [email |-> "", name |-> "none", path |-> 0]

\* The calls of UserService that `prev` remembers.
ServiceCalls == {"add_user", "remove_user", "get_users", "get_user_link"}

NoPrev == [op |-> NoOp, ret |-> "none", link |-> <<>>, file |-> NoFile]

\* XRAY_PUB_KEY in .env: an X25519 public key in URL-safe base64 without
\* padding, as `xray x25519` prints it.
KeyUrlSafe == <<"A", "-", "_">>

\* The idle states of the calls that share no state with the repository.
NoInitialize ==
    [before |-> <<>>, config |-> <<>>, domain |-> "None", env |-> <<>>,
     keys |-> <<>>, pc |-> "idle", ret |-> "none", trace |-> <<>>]

NoHost == [alpn |-> "None", dns |-> <<>>, tcp |-> "OSError", tls |-> "SSLError"]

NoVerify ==
    [forbidden_ip |-> <<>>, host |-> NoHost, msg |-> "", pc |-> "idle",
     ret |-> "none", target_ip |-> <<>>, trace |-> <<>>]

NoStats ==
    [exit_code |-> 0, i |-> 0, output |-> <<>>, pc |-> "idle", ret |-> "none",
     stats |-> <<>>]

\* No on_initialize, verify or get_traffic_stats call is under way.
NoTools == initialize = NoInitialize /\ verify = NoVerify /\ stats = NoStats

InitCommon ==
    /\ win32 \in BOOLEAN
    /\ clock = InitSecond * TicksPerSecond
    /\ lockHolder = NoProc
    /\ nextUuid = 1
    /\ pc = [p \in Procs |-> "idle"]
    /\ op = [p \in Procs |-> NoOp]
    /\ config = [p \in Procs |-> <<>>]
    /\ blist = [p \in Procs |-> <<>>]
    /\ exc = [p \in Procs |-> ""]
    /\ ret = [p \in Procs |-> "none"]
    /\ newUuid = [p \in Procs |-> 0]
    /\ link = [p \in Procs |-> <<>>]
    /\ users = [p \in Procs |-> <<>>]
    /\ files = [p \in Procs |-> <<>>]
    /\ trace = [p \in Procs |-> <<>>]
    /\ pre = [p \in Procs |-> [file |-> NoFile, dir |-> <<>>, seq |-> 0]]
    /\ prev = [p \in Procs |-> NoPrev]
    /\ taken = [p \in Procs |-> NoBackup]
    /\ calls = 0
    /\ unlinks = [latestFailed |-> FALSE, removed |-> {}, failed |-> {}]

\* A repository after MaxBackups - 1 successful mutations, one per second: alice
\* was there until the last of them removed her.
DocAlice == <<Inbound("vless", "reality", <<Client("alice", 0)>>)>>

UsedBackups == [t \in 1..InitSecond |-> Json(DocAlice)]

\* Before `xctl init`, after it, or after some mutations.
InitFiles ==
    /\ \/ liveFile = NoFile /\ backups = <<>>
       \/ liveFile = Json(Doc0) /\ backups = <<>>
       \/ liveFile = Json(Doc0) /\ backups = UsedBackups
    /\ successes = Cardinality(DOMAIN backups)
    /\ latest = Cardinality(DOMAIN backups)

Init == InitCommon /\ InitFiles /\ pubKey = KeyUrlSafe /\ NoTools

\* A key in standard base64 with padding; Settings._validate_key accepts any
\* value of 43 or 44 characters.
KeyPadded == <<"A", "+", "/", "=">>

PubKeys == {KeyUrlSafe, KeyPadded}

\* The inbounds of the configurations the user commands are tried on.
InboundKinds ==
    { Inbound("vless", "reality", <<>>),
      Inbound("vless", "reality", <<Client("alice", 0)>>),
      InboundSpx("vless", "reality", <<Client("bob", -1)>>, "/"),
      Inbound("vless", "tls", <<Client("bob", -1)>>),
      Inbound("trojan", "reality", <<Client("alice", 0)>>),
      Inbound("vless", "None", <<>>) }

UserDocs == UNION {[1..n -> InboundKinds] : n \in 0..MaxInbounds}

\* A server whose config.json holds any of these documents, holds a document
\* without inbounds, or is missing.
InitDocs ==
    /\ InitCommon
    /\ ~win32
    /\ pubKey \in PubKeys
    /\ liveFile \in {Json(doc) : doc \in UserDocs} \cup {Bare, NoFile}
    /\ backups = <<>>
    /\ successes = 0
    /\ latest = 0
    /\ NoTools

\* A server in use: no clients yet, or alice.
InitUsers ==
    /\ InitCommon
    /\ ~win32
    /\ pubKey = KeyUrlSafe
    /\ liveFile \in {Json(Doc0), Json(DocAlice)}
    /\ backups = <<>>
    /\ successes = 0
    /\ latest = 0
    /\ NoTools

\* ------------------------------------------------------------------ invocations

\* A session starts an operation: its locals are fresh.
Begin(p, o, first) ==
    /\ pc[p] \in {"idle", "done"}
    /\ calls < MaxCalls
    /\ calls' = calls + 1
    /\ op' = [op EXCEPT ![p] = o]
    /\ pc' = [pc EXCEPT ![p] = first]
    /\ config' = [config EXCEPT ![p] = <<>>]
    /\ blist' = [blist EXCEPT ![p] = <<>>]
    /\ exc' = [exc EXCEPT ![p] = ""]
    /\ ret' = [ret EXCEPT ![p] = "none"]
    /\ newUuid' = [newUuid EXCEPT ![p] = 0]
    /\ link' = [link EXCEPT ![p] = <<>>]
    /\ users' = [users EXCEPT ![p] = <<>>]
    /\ trace' = [trace EXCEPT ![p] = <<>>]
    /\ pre' = [pre EXCEPT ![p] =
                  [file |-> liveFile, dir |-> backups, seq |-> calls + 1]]
    /\ prev' = [prev EXCEPT ![p] =
                  IF op[p].name \in ServiceCalls
                  THEN [op |-> op[p], ret |-> ret[p], link |-> link[p],
                        file |-> pre[p].file]
                  ELSE NoPrev]
    /\ taken' = [taken EXCEPT ![p] = NoBackup]
    /\ files' = [files EXCEPT ![p] = <<>>]
    /\ UNCHANGED <<tools, latest, pubKey, win32, liveFile, backups, clock, lockHolder,
                   nextUuid, successes, unlinks>>

\* The invocation ends: it returned r, or raised the exception r.
Finish(p, r) ==
    /\ pc' = [pc EXCEPT ![p] = "done"]
    /\ ret' = [ret EXCEPT ![p] = r]

Goto(p, label) == pc' = [pc EXCEPT ![p] = label]

Log(p, event) == trace' = [trace EXCEPT ![p] = Append(@, event)]

\* ------------------------------------------------------------------ atomic_write

AtomicWriteOp == [email |-> "", name |-> "atomic_write", path |-> 0]

CallAtomicWrite(p) == Begin(p, AtomicWriteOp, "aw_flock")

\* AwRaise without the try/finally: the exception leaves atomic_write at once.
AwRaiseNoFinally(p, e) == Finish(p, e) /\ UNCHANGED exc

\* An exception inside the try block of atomic_write runs the finally clause
\* first; the win32 branch has no try block.
AwRaise(p, e) ==
    IF win32
    THEN Finish(p, e) /\ UNCHANGED exc
    ELSE Goto(p, "aw_unlock") /\ exc' = [exc EXCEPT ![p] = e] /\ UNCHANGED ret

\* Flock with LOCK_NB and the error ignored: the invocation goes on without
\* waiting for the holder.
FlockNoWait(p) ==
    /\ pc[p] = "aw_flock"
    /\ lockHolder' = IF win32 THEN lockHolder ELSE p
    /\ Goto(p, "aw_backup")
    /\ UNCHANGED <<tools, files, latest, users, pubKey, prev,
                   win32, liveFile, backups, clock, nextUuid, op, config, blist, exc,
                   ret, newUuid, link, trace, pre, taken, calls, successes, unlinks>>

\* fcntl.flock(lockfile, fcntl.LOCK_EX): blocks while another open file
\* description holds the lock.  The win32 branch takes no lock.
Flock(p) ==
    /\ pc[p] = "aw_flock"
    /\ \/ /\ win32
          /\ UNCHANGED lockHolder
       \/ /\ ~win32
          /\ lockHolder = NoProc
          /\ lockHolder' = p
    /\ Goto(p, "aw_backup")
    /\ UNCHANGED <<tools, files, latest, users, pubKey, prev,
                   win32, liveFile, backups, clock, nextUuid, op, config, blist, exc,
                   ret, newUuid, link, trace, pre, taken, calls, successes, unlinks>>

\* _create_backup up to the listing: nothing to do without a config file;
\* otherwise copy it under the name of the current second and list the directory.
\* The clock has moved on since it was last read, by an instant or by a second.
\* shutil.copy2 may raise OSError, which _create_backup does not catch.
CreateBackup(p) ==
    /\ pc[p] = "aw_backup"
    /\ \/ /\ ~Exists(liveFile)
          /\ Goto(p, "aw_load")
          /\ UNCHANGED <<backups, clock, blist, exc, ret, trace, taken, latest,
                         unlinks>>
       \/ /\ Exists(liveFile)
          /\ \E now \in {clock + 1, clock + TicksPerSecond} :
                /\ now <= (InitSecond + MaxSeconds) * TicksPerSecond
                /\ clock' = now
                /\ \/ /\ backups' = Put(backups, Timestamp(now), liveFile)
                      /\ blist' = [blist EXCEPT ![p] = Glob(backups')]
                      /\ taken' = [taken EXCEPT ![p] =
                                      [ts |-> Timestamp(now), content |-> liveFile]]
                      /\ latest' = Timestamp(now)
                      /\ unlinks' = [unlinks EXCEPT !.latestFailed = FALSE]
                      /\ Log(p, "backup")
                      /\ Goto(p, "aw_evict")
                      /\ UNCHANGED <<exc, ret>>
                   \/ /\ AwRaise(p, "OSError")
                      /\ UNCHANGED <<backups, blist, trace, taken, latest, unlinks>>
    /\ UNCHANGED <<tools, files, users, pubKey, prev,
                   win32, liveFile, lockHolder, nextUuid, op, config, newUuid, link, pre,
                   calls, successes>>

\* Evict with backups.pop() for backups.pop(0): the newest name goes first.
EvictNewest(p) ==
    /\ pc[p] = "aw_evict"
    /\ \/ /\ Len(blist[p]) > MaxBackups
          /\ blist' = [blist EXCEPT ![p] = SubSeq(@, 1, Len(@) - 1)]
          /\ \/ /\ blist[p][Len(blist[p])] \in DOMAIN backups
                /\ backups' = Remove(backups, blist[p][Len(blist[p])])
                /\ unlinks' = [unlinks EXCEPT
                                  !.removed = @ \cup {blist[p][Len(blist[p])]}]
             \/ /\ unlinks' = [unlinks EXCEPT
                                  !.latestFailed = TRUE,
                                  !.failed = @ \cup {blist[p][Len(blist[p])]}]
                /\ UNCHANGED backups
          /\ UNCHANGED pc
       \/ /\ Len(blist[p]) <= MaxBackups
          /\ Goto(p, "aw_load")
          /\ UNCHANGED <<backups, blist, unlinks>>
    /\ UNCHANGED <<tools, files, latest, users, pubKey, prev,
                   win32, liveFile, clock, lockHolder, nextUuid, op, config, exc, ret,
                   newUuid, link, trace, pre, taken, calls, successes>>

\* One turn of `while len(backups) > 10`: pop the oldest name and unlink it; an
\* OSError (no permission, or the file is gone already) is swallowed.
Evict(p) ==
    /\ pc[p] = "aw_evict"
    /\ \/ /\ Len(blist[p]) > MaxBackups
          /\ blist' = [blist EXCEPT ![p] = Tail(@)]
          /\ \/ /\ Head(blist[p]) \in DOMAIN backups
                /\ backups' = Remove(backups, Head(blist[p]))
                /\ unlinks' = [unlinks EXCEPT !.removed = @ \cup {Head(blist[p])}]
             \/ /\ unlinks' = [unlinks EXCEPT !.latestFailed = TRUE,
                                              !.failed = @ \cup {Head(blist[p])}]
                /\ UNCHANGED backups
          /\ UNCHANGED pc
       \/ /\ Len(blist[p]) <= MaxBackups
          /\ Goto(p, "aw_load")
          /\ UNCHANGED <<backups, blist, unlinks>>
    /\ UNCHANGED <<tools, files, latest, users, pubKey, prev,
                   win32, liveFile, clock, lockHolder, nextUuid, op, config, exc, ret,
                   newUuid, link, trace, pre, taken, calls, successes>>

\* config = self.load()
AwLoad(p) ==
    /\ pc[p] = "aw_load"
    /\ IF LoadError(liveFile) # ""
       THEN AwRaise(p, LoadError(liveFile)) /\ UNCHANGED config
       ELSE /\ config' = [config EXCEPT ![p] = liveFile.doc]
            /\ Goto(p, "aw_yield")
            /\ UNCHANGED <<exc, ret>>
    /\ UNCHANGED <<tools, files, latest, users, pubKey, prev,
                   win32, liveFile, backups, clock, lockHolder, nextUuid, op, blist,
                   newUuid, link, trace, pre, taken, calls, successes, unlinks>>

\* What a caller's block may do to the document it is handed.
Edits == {"keep", "append", "remove"}

Edited(doc, edit, email, id) ==
    LET i == FindVlessInbound(doc)
    IN IF i = 0 \/ edit = "keep" THEN doc
       ELSE IF edit = "append"
            THEN WithClients(doc, i, Append(doc[i].clients, Client(email, id)))
            ELSE WithClients(doc, i, Without(doc[i].clients, email))

\* AwYield with self.save(config) moved into the finally clause: the document
\* is saved although the block raised.
AwYieldSavesAnyway(p) ==
    /\ pc[p] = "aw_yield"
    /\ \E edit \in Edits, email \in Aliases, raises \in BOOLEAN :
          /\ config' = [config EXCEPT ![p] = Edited(@, edit, email, nextUuid)]
          /\ nextUuid' = IF edit = "append" THEN nextUuid + 1 ELSE nextUuid
          /\ exc' = [exc EXCEPT ![p] = IF raises THEN "BlockError" ELSE @]
          /\ Goto(p, "save_open")
          /\ UNCHANGED ret
    /\ UNCHANGED <<tools, files, latest, users, pubKey, prev,
                   win32, liveFile, backups, clock, lockHolder, op, blist,
                   newUuid, link, trace, pre, taken, calls, successes, unlinks>>

\* yield config: the caller's block edits the document in place, and then
\* completes or raises.  A raise skips self.save(config).
AwYield(p) ==
    /\ pc[p] = "aw_yield"
    /\ \E edit \in Edits, email \in Aliases, raises \in BOOLEAN :
          /\ config' = [config EXCEPT ![p] = Edited(@, edit, email, nextUuid)]
          /\ nextUuid' = IF edit = "append" THEN nextUuid + 1 ELSE nextUuid
          /\ IF raises
             THEN AwRaise(p, "BlockError")
             ELSE Goto(p, "save_open") /\ UNCHANGED <<exc, ret>>
    /\ UNCHANGED <<tools, files, latest, users, pubKey, prev,
                   win32, liveFile, backups, clock, lockHolder, op, blist,
                   newUuid, link, trace, pre, taken, calls, successes, unlinks>>

\* AwUnlock without the flock(LOCK_UN) call: the lock stays with an
\* invocation that has ended.
AwUnlockKeepsLock(p) ==
    /\ pc[p] = "aw_unlock"
    /\ Finish(p, IF exc[p] = "" THEN "ok" ELSE exc[p])
    /\ UNCHANGED <<tools, files, latest, users, pubKey, prev, lockHolder,
                   win32, liveFile, backups, clock, nextUuid, op, config, blist, exc,
                   newUuid, link, trace, pre, taken, calls, successes, unlinks>>

\* finally: fcntl.flock(lockfile, fcntl.LOCK_UN); a pending exception goes on
\* to the caller.
AwUnlock(p) ==
    /\ pc[p] = "aw_unlock"
    /\ lockHolder' = IF lockHolder = p THEN NoProc ELSE lockHolder
    /\ Finish(p, IF exc[p] = "" THEN "ok" ELSE exc[p])
    /\ UNCHANGED <<tools, files, latest, users, pubKey, prev,
                   win32, liveFile, backups, clock, nextUuid, op, config, blist, exc,
                   newUuid, link, trace, pre, taken, calls, successes, unlinks>>

\* ------------------------------------------------------------------ save

\* Where an operation goes on after self.repo.save(config) returned.
AfterSave(p) ==
    IF op[p].name = "atomic_write" THEN (IF win32 THEN "done" ELSE "aw_unlock")
    ELSE IF op[p].name = "add_user" THEN "add_restart"
    ELSE "rm_restart"

\* An OSError out of save.
SaveRaise(p) ==
    IF op[p].name = "atomic_write"
    THEN AwRaise(p, "OSError")
    ELSE Finish(p, "OSError") /\ UNCHANGED exc

\* save, first half: open(self.file_path, 'w') truncates the file.
SaveOpen(p) ==
    /\ pc[p] = "save_open"
    /\ liveFile' = Empty
    /\ Goto(p, "save_dump")
    /\ UNCHANGED <<tools, files, latest, users, pubKey, prev,
                   win32, backups, clock, lockHolder, nextUuid, op, config, blist, exc,
                   ret, newUuid, link, trace, pre, taken, calls, successes, unlinks>>

\* save, second half: json.dump writes the document and the file is closed; a
\* failing write leaves what is there.
SaveDump(p) ==
    /\ pc[p] = "save_dump"
    /\ \/ /\ liveFile' \in DumpOver(liveFile, config[p])
          /\ Log(p, "write")
          /\ successes' = IF op[p].name = "atomic_write" THEN successes + 1
                          ELSE successes
          /\ IF AfterSave(p) = "done"
             THEN Finish(p, "ok")
             ELSE Goto(p, AfterSave(p)) /\ UNCHANGED ret
          /\ UNCHANGED exc
       \/ /\ SaveRaise(p)
          /\ UNCHANGED <<liveFile, trace, successes>>
    /\ UNCHANGED <<tools, files, latest, users, pubKey, prev,
                   win32, backups, clock, lockHolder, nextUuid, op, config, blist,
                   newUuid, link, pre, taken, calls, unlinks>>

\* ------------------------------------------------------------------ container

\* urllib.parse.quote of one character: letters, digits, '_.-~' and '/' stay,
\* every other character becomes its percent escape.
QuoteChar(c) ==
    IF c = "+" THEN "%2B"
    ELSE IF c = "=" THEN "%3D"
    ELSE c

\* urllib.parse.quote(pub_key), as RealityHandler.generate_link applies it.
Quote(key) == [i \in 1..Len(key) |-> QuoteChar(key[i])]

\* reality.get('spiderX', '')
SpiderX(inbound) == IF "spiderX" \in DOMAIN inbound THEN inbound.spiderX ELSE ""

\* UserService._generate_link: the parts of the link in the order they are
\* written; address, port, sni, sid and fp are fixed text of the deployment.
\* pub_key goes in as settings.XRAY_PUB_KEY holds it.
GenerateLink(user_uuid, email, inbound) ==
    LET head == << <<"vless://", user_uuid>>, <<"security", "reality">>,
                   <<"encryption", "none">>, <<"pbk", pubKey>>,
                   <<"headerType", "none">>, <<"type", "tcp">>,
                   <<"flow", "xtls-rprx-vision">> >>
        spx == SpiderX(inbound)
    IN (IF spx # "" THEN Append(head, <<"spx", spx>>) ELSE head)
           \o << <<"#", email>> >>

\* DockerRestart putting the live file back as the call found it when the
\* restart fails.
DockerRestartRollsBack(p) ==
    /\ pc[p] \in {"add_restart", "rm_restart", "rs_restart"}
    /\ Log(p, "restart")
    /\ \/ /\ Finish(p, IF pc[p] = "rm_restart" THEN "True" ELSE "ok")
          /\ link' = [link EXCEPT ![p] =
                IF pc[p] = "add_restart"
                THEN GenerateLink(newUuid[p], op[p].email,
                                  config[p][FindVlessInbound(config[p])])
                ELSE @]
          /\ UNCHANGED liveFile
       \/ /\ Finish(p, "DockerOperationError")
          /\ liveFile' = pre[p].file
          /\ UNCHANGED link
    /\ UNCHANGED <<tools, files, latest, users, pubKey, prev,
                   win32, backups, clock, lockHolder, nextUuid, op, config,
                   blist, exc, newUuid, pre, taken, calls, successes, unlinks>>

\* self.docker.restart(), and the return after it: the container restarts, or
\* DockerOperationError (no such container, or the API fails).
DockerRestart(p) ==
    /\ pc[p] \in {"add_restart", "rm_restart", "rs_restart"}
    /\ Log(p, "restart")
    /\ \/ /\ Finish(p, IF pc[p] = "rm_restart" THEN "True" ELSE "ok")
          /\ link' = [link EXCEPT ![p] =
                IF pc[p] = "add_restart"
                THEN GenerateLink(newUuid[p], op[p].email,
                                  config[p][FindVlessInbound(config[p])])
                ELSE @]
       \/ /\ Finish(p, "DockerOperationError")
          /\ UNCHANGED link
    /\ UNCHANGED <<tools, files, latest, users, pubKey, prev,
                   win32, liveFile, backups, clock, lockHolder, nextUuid, op, config,
                   blist, exc, newUuid, pre, taken, calls, successes, unlinks>>

\* ------------------------------------------------------------------ UserService

CallAddUser(p) ==
    \E email \in Aliases :
        Begin(p, [email |-> email, name |-> "add_user", path |-> 0], "add_load")

\* AddUser testing only the last client for the email.
AddUserChecksLast(p) ==
    /\ pc[p] = "add_load"
    /\ LET i == FindVlessInbound(liveFile.doc)
       IN IF LoadError(liveFile) # ""
          THEN Finish(p, LoadError(liveFile)) /\ UNCHANGED <<config, nextUuid, newUuid>>
          ELSE IF i = 0
          THEN Finish(p, "XrayError") /\ UNCHANGED <<config, nextUuid, newUuid>>
          ELSE IF /\ liveFile.doc[i].clients # <<>>
                  /\ liveFile.doc[i].clients[Len(liveFile.doc[i].clients)].email
                        = op[p].email
          THEN Finish(p, "ValueError") /\ UNCHANGED <<config, nextUuid, newUuid>>
          ELSE /\ newUuid' = [newUuid EXCEPT ![p] = nextUuid]
               /\ nextUuid' = nextUuid + 1
               /\ config' = [config EXCEPT ![p] =
                     WithClients(liveFile.doc, i,
                         Append(liveFile.doc[i].clients, Client(op[p].email, nextUuid)))]
               /\ Goto(p, "save_open")
               /\ UNCHANGED ret
    /\ UNCHANGED <<tools, files, latest, users, pubKey, prev,
                   win32, liveFile, backups, clock, lockHolder, op, blist, exc, link,
                   trace, pre, taken, calls, successes, unlinks>>

\* AddUser without the `already exists` test.
AddUserNoCheck(p) ==
    /\ pc[p] = "add_load"
    /\ LET i == FindVlessInbound(liveFile.doc)
       IN IF LoadError(liveFile) # ""
          THEN Finish(p, LoadError(liveFile)) /\ UNCHANGED <<config, nextUuid, newUuid>>
          ELSE IF i = 0
          THEN Finish(p, "XrayError") /\ UNCHANGED <<config, nextUuid, newUuid>>
          ELSE /\ newUuid' = [newUuid EXCEPT ![p] = nextUuid]
               /\ nextUuid' = nextUuid + 1
               /\ config' = [config EXCEPT ![p] =
                     WithClients(liveFile.doc, i,
                         Append(liveFile.doc[i].clients, Client(op[p].email, nextUuid)))]
               /\ Goto(p, "save_open")
               /\ UNCHANGED ret
    /\ UNCHANGED <<tools, files, latest, users, pubKey, prev,
                   win32, liveFile, backups, clock, lockHolder, op, blist, exc, link,
                   trace, pre, taken, calls, successes, unlinks>>

\* AddUser with a constant in place of uuid.uuid4().
AddUserFixedId(p) ==
    /\ pc[p] = "add_load"
    /\ LET i == FindVlessInbound(liveFile.doc)
       IN IF LoadError(liveFile) # ""
          THEN Finish(p, LoadError(liveFile)) /\ UNCHANGED <<config, newUuid>>
          ELSE IF i = 0
          THEN Finish(p, "XrayError") /\ UNCHANGED <<config, newUuid>>
          ELSE IF op[p].email \in Emails(liveFile.doc[i].clients)
          THEN Finish(p, "ValueError") /\ UNCHANGED <<config, newUuid>>
          ELSE /\ newUuid' = [newUuid EXCEPT ![p] = 0]
               /\ config' = [config EXCEPT ![p] =
                     WithClients(liveFile.doc, i,
                         Append(liveFile.doc[i].clients, Client(op[p].email, 0)))]
               /\ Goto(p, "save_open")
               /\ UNCHANGED ret
    /\ UNCHANGED <<tools, files, latest, users, pubKey, prev, nextUuid,
                   win32, liveFile, backups, clock, lockHolder, op, blist, exc, link,
                   trace, pre, taken, calls, successes, unlinks>>

\* add_user up to self.repo.save(config): load, find the inbound, refuse a
\* known email, append the new client to the loaded document.
AddUser(p) ==
    /\ pc[p] = "add_load"
    /\ LET i == FindVlessInbound(liveFile.doc)
       IN IF LoadError(liveFile) # ""
          THEN Finish(p, LoadError(liveFile)) /\ UNCHANGED <<config, nextUuid, newUuid>>
          ELSE IF i = 0
          THEN Finish(p, "XrayError") /\ UNCHANGED <<config, nextUuid, newUuid>>
          ELSE IF op[p].email \in Emails(liveFile.doc[i].clients)
          THEN Finish(p, "ValueError") /\ UNCHANGED <<config, nextUuid, newUuid>>
          ELSE /\ newUuid' = [newUuid EXCEPT ![p] = nextUuid]
               /\ nextUuid' = nextUuid + 1
               /\ config' = [config EXCEPT ![p] =
                     WithClients(liveFile.doc, i,
                         Append(liveFile.doc[i].clients, Client(op[p].email, nextUuid)))]
               /\ Goto(p, "save_open")
               /\ UNCHANGED ret
    /\ UNCHANGED <<tools, files, latest, users, pubKey, prev,
                   win32, liveFile, backups, clock, lockHolder, op, blist, exc, link,
                   trace, pre, taken, calls, successes, unlinks>>

CallRemoveUser(p) ==
    \E email \in Aliases :
        Begin(p, [email |-> email, name |-> "remove_user", path |-> 0], "rm_load")

\* RemoveUser with `<=` for `<` in the length test: it saves and returns True
\* although no client went.
RemoveUserLessEqual(p) ==
    /\ pc[p] = "rm_load"
    /\ LET i == FindVlessInbound(liveFile.doc)
       IN IF LoadError(liveFile) # ""
          THEN Finish(p, LoadError(liveFile)) /\ UNCHANGED config
          ELSE IF i = 0
          THEN Finish(p, "XrayError") /\ UNCHANGED config
          ELSE /\ config' = [config EXCEPT ![p] =
                     WithClients(liveFile.doc, i,
                                 Without(liveFile.doc[i].clients, op[p].email))]
               /\ Goto(p, "save_open")
               /\ UNCHANGED ret
    /\ UNCHANGED <<tools, files, latest, users, pubKey, prev,
                   win32, liveFile, backups, clock, lockHolder, nextUuid, op, blist, exc,
                   newUuid, link, trace, pre, taken, calls, successes, unlinks>>

\* remove_user up to self.repo.save(config): load, find the inbound, filter the
\* clients; return False when none went.
RemoveUser(p) ==
    /\ pc[p] = "rm_load"
    /\ LET i == FindVlessInbound(liveFile.doc)
       IN IF LoadError(liveFile) # ""
          THEN Finish(p, LoadError(liveFile)) /\ UNCHANGED config
          ELSE IF i = 0
          THEN Finish(p, "XrayError") /\ UNCHANGED config
          ELSE IF Len(Without(liveFile.doc[i].clients, op[p].email))
                      < Len(liveFile.doc[i].clients)
          THEN /\ config' = [config EXCEPT ![p] =
                     WithClients(liveFile.doc, i,
                                 Without(liveFile.doc[i].clients, op[p].email))]
               /\ Goto(p, "save_open")
               /\ UNCHANGED ret
          ELSE Finish(p, "False") /\ UNCHANGED config
    /\ UNCHANGED <<tools, files, latest, users, pubKey, prev,
                   win32, liveFile, backups, clock, lockHolder, nextUuid, op, blist, exc,
                   newUuid, link, trace, pre, taken, calls, successes, unlinks>>

GetUsersOp == [email |-> "", name |-> "get_users", path |-> 0]

CallGetUsers(p) == Begin(p, GetUsersOp, "gu_load")

\* get_users: load, find the inbound, return its clients.
GetUsers(p) ==
    /\ pc[p] = "gu_load"
    /\ LET i == FindVlessInbound(liveFile.doc)
       IN IF LoadError(liveFile) # ""
          THEN Finish(p, LoadError(liveFile)) /\ UNCHANGED users
          ELSE IF i = 0
          THEN Finish(p, "XrayError") /\ UNCHANGED users
          ELSE /\ users' = [users EXCEPT ![p] = liveFile.doc[i].clients]
               /\ Finish(p, "ok")
    /\ UNCHANGED <<tools, files, latest, pubKey, prev, win32, liveFile, backups,
                   clock, lockHolder, nextUuid, op, config, blist, exc, newUuid, link,
                   trace, pre, taken, calls, successes, unlinks>>

\* next((c for c in clients if c.get('email') == email), None): the index of
\* the first client with that email, 0 for None.
RECURSIVE FirstClient(_, _, _)
FirstClient(clients, email, k) ==
    IF k > Len(clients) THEN 0
    ELSE IF clients[k].email = email THEN k
    ELSE FirstClient(clients, email, k + 1)

CallGetUserLink(p) ==
    \E email \in Aliases :
        Begin(p, [email |-> email, name |-> "get_user_link", path |-> 0], "gl_load")

\* GetUserLink rendering the link for a new uuid4 instead of the stored id.
GetUserLinkFreshId(p) ==
    /\ pc[p] = "gl_load"
    /\ LET i == FindVlessInbound(liveFile.doc)
       IN IF LoadError(liveFile) # ""
          THEN Finish(p, LoadError(liveFile)) /\ UNCHANGED link
          ELSE IF i = 0
          THEN Finish(p, "XrayError") /\ UNCHANGED link
          ELSE LET clients == liveFile.doc[i].clients
                   k == FirstClient(clients, op[p].email, 1)
               IN IF k = 0
                  THEN Finish(p, "ValueError") /\ UNCHANGED link
                  ELSE /\ link' = [link EXCEPT ![p] =
                             GenerateLink(nextUuid, op[p].email, liveFile.doc[i])]
                       /\ Finish(p, "ok")
    /\ UNCHANGED <<tools, files, latest, users, pubKey, prev, win32, liveFile,
                   backups, clock, lockHolder, nextUuid, op, config, blist, exc,
                   newUuid, trace, pre, taken, calls, successes, unlinks>>

\* get_user_link: load, find the inbound, look the email up, render the link
\* for the stored id; ValueError when no client has the email.
GetUserLink(p) ==
    /\ pc[p] = "gl_load"
    /\ LET i == FindVlessInbound(liveFile.doc)
       IN IF LoadError(liveFile) # ""
          THEN Finish(p, LoadError(liveFile)) /\ UNCHANGED link
          ELSE IF i = 0
          THEN Finish(p, "XrayError") /\ UNCHANGED link
          ELSE LET clients == liveFile.doc[i].clients
                   k == FirstClient(clients, op[p].email, 1)
               IN IF k = 0
                  THEN Finish(p, "ValueError") /\ UNCHANGED link
                  ELSE /\ link' = [link EXCEPT ![p] =
                             GenerateLink(clients[k].id, op[p].email, liveFile.doc[i])]
                       /\ Finish(p, "ok")
    /\ UNCHANGED <<tools, files, latest, users, pubKey, prev, win32, liveFile,
                   backups, clock, lockHolder, nextUuid, op, config, blist, exc,
                   newUuid, trace, pre, taken, calls, successes, unlinks>>

\* ------------------------------------------------------------------ SystemService

\* A path listed by get_backups, or one that names no file (second 0).
CallRestoreBackup(p) ==
    \E path \in (DOMAIN backups) \cup {0} :
        Begin(p, [email |-> "", name |-> "restore_backup", path |-> path], "rs_check")

\* RestoreCheck without the exists() test.
RestoreCheckMissing(p) ==
    /\ pc[p] = "rs_check"
    /\ Goto(p, "rs_copy")
    /\ UNCHANGED <<tools, files, latest, users, pubKey, prev,
                   win32, liveFile, backups, clock, lockHolder, nextUuid, op, config,
                   blist, exc, ret, newUuid, link, trace, pre, taken, calls, successes,
                   unlinks>>

\* RestoreCheck with self.docker.restart() called ahead of the copy too.
RestoreCheckRestartsFirst(p) ==
    /\ pc[p] = "rs_check"
    /\ IF op[p].path \in DOMAIN backups
       THEN Log(p, "restart") /\ Goto(p, "rs_copy") /\ UNCHANGED ret
       ELSE Finish(p, "ConfigNotFoundError") /\ UNCHANGED trace
    /\ UNCHANGED <<tools, files, latest, users, pubKey, prev,
                   win32, liveFile, backups, clock, lockHolder, nextUuid, op, config,
                   blist, exc, newUuid, link, pre, taken, calls, successes,
                   unlinks>>

\* restore_backup: if not backup_path.exists(): raise ConfigNotFoundError
RestoreCheck(p) ==
    /\ pc[p] = "rs_check"
    /\ IF op[p].path \in DOMAIN backups
       THEN Goto(p, "rs_copy") /\ UNCHANGED ret
       ELSE Finish(p, "ConfigNotFoundError")
    /\ UNCHANGED <<tools, files, latest, users, pubKey, prev,
                   win32, liveFile, backups, clock, lockHolder, nextUuid, op, config,
                   blist, exc, newUuid, link, trace, pre, taken, calls, successes,
                   unlinks>>

\* RestoreCopy with shutil.move for shutil.copy2: the backup is consumed.
RestoreMove(p) ==
    /\ pc[p] = "rs_copy"
    /\ \/ /\ op[p].path \in DOMAIN backups
          /\ liveFile' = backups[op[p].path]
          /\ backups' = Remove(backups, op[p].path)
          /\ Log(p, "copy")
          /\ Goto(p, "rs_restart")
          /\ UNCHANGED ret
       \/ /\ Finish(p, "OSError")
          /\ UNCHANGED <<liveFile, backups, trace>>
    /\ UNCHANGED <<tools, files, latest, users, pubKey, prev,
                   win32, clock, lockHolder, nextUuid, op, config, blist, exc,
                   newUuid, link, pre, taken, calls, successes, unlinks>>

\* restore_backup: shutil.copy2(backup_path, self.file_path); OSError when the
\* copy fails or the backup has gone since the check.
RestoreCopy(p) ==
    /\ pc[p] = "rs_copy"
    /\ \/ /\ op[p].path \in DOMAIN backups
          /\ liveFile' = backups[op[p].path]
          /\ Log(p, "copy")
          /\ Goto(p, "rs_restart")
          /\ UNCHANGED ret
       \/ /\ Finish(p, "OSError")
          /\ UNCHANGED <<liveFile, trace>>
    /\ UNCHANGED <<tools, files, latest, users, pubKey, prev,
                   win32, backups, clock, lockHolder, nextUuid, op, config, blist, exc,
                   newUuid, link, pre, taken, calls, successes, unlinks>>

GetBackupsOp == [email |-> "", name |-> "get_backups", path |-> 0]

CallGetBackups(p) == Begin(p, GetBackupsOp, "gb_list")

RECURSIVE Reverse(_)
Reverse(s) == IF s = <<>> THEN <<>> ELSE Append(Reverse(Tail(s)), Head(s))

\* GetAvailableBackups without reverse=True.
GetAvailableBackupsOldestFirst(dir) == Glob(dir)

\* ConfigRepository.get_available_backups: [] without a backup directory,
\* else sorted(self.backup_dir.glob("config.*.json"), reverse=True).
GetAvailableBackups(dir) == Reverse(Glob(dir))

\* One element of the list get_backups returns: the path, the file name
\* config.<timestamp>.json, and the timestamp cut out of the name.
BackupEntry(t) == [date |-> t, name |-> <<"config", t, "json">>, path |-> t]

\* SystemService.get_backups
GetBackups(p) ==
    /\ pc[p] = "gb_list"
    /\ files' = [files EXCEPT ![p] =
          [k \in 1..Len(GetAvailableBackups(backups)) |->
              BackupEntry(GetAvailableBackups(backups)[k])]]
    /\ Finish(p, "ok")
    /\ UNCHANGED <<tools, latest, users, pubKey, prev, win32, liveFile, backups, clock,
                   lockHolder, nextUuid, op, config, blist, exc, newUuid, link, trace,
                   pre, taken, calls, successes, unlinks>>

\* The process is killed after self.repo.save(config) returned and before
\* self.docker.restart() is called.
Killed(p) ==
    /\ pc[p] \in {"add_restart", "rm_restart"}
    /\ Finish(p, "killed")
    /\ UNCHANGED <<tools, files, latest, users, pubKey, prev, win32, liveFile, backups,
                   clock, lockHolder, nextUuid, op, config, blist, exc, newUuid, link,
                   trace, pre, taken, calls, successes, unlinks>>

\* ------------------------------------------------------------------ on_initialize

\* The variables of the repository, its services and their sessions.
repository == <<win32, liveFile, backups, clock, lockHolder, nextUuid, pc, op,
                config, blist, exc, ret, newUuid, link, users, files, pubKey,
                trace, pre, prev, taken, latest, calls, successes, unlinks>>

\* inbound['streamSettings']['realitySettings'] as the configuration template
\* ships it, and as an earlier initialization left it.
TemplateReality ==
    [dest |-> <<>>, privateKey |-> "", serverNames |-> <<>>, shortIds |-> <<>>]

UsedReality ==
    [dest |-> <<"old.example", 443>>, privateKey |-> "priv0",
     serverNames |-> <<"old.example">>, shortIds |-> <<"00">>]

\* An inbound with its realitySettings.
RealityInbound(protocol, security, reality) ==
    [protocol |-> protocol, security |-> security, clients |-> <<>>,
     realitySettings |-> reality]

\* The inbounds of the documents on_initialize is tried on; the last one has
\* security 'reality' and no realitySettings key.
InitializeKinds ==
    { RealityInbound("vless", "reality", TemplateReality),
      RealityInbound("vless", "reality", UsedReality),
      RealityInbound("trojan", "reality", TemplateReality),
      RealityInbound("vless", "tls", TemplateReality),
      Inbound("vless", "reality", <<>>) }

InitializeDocs == UNION {[1..n -> InitializeKinds] : n \in 0..MaxInbounds}

\* The domain argument: None (the default), the empty string, or a host name.
Domains == {"None", "", "example.com"}

\* What `xray x25519` may print: (private key, public key).
KeyPairs == {<<"priv1", "pub1">>, <<"priv2", "pub2">>}

\* What secrets.token_hex(8) may yield.
ShortIds == {"0a", "0b"}

\* A caller hands on_initialize a document and a domain.
CallOnInitialize ==
    /\ initialize.pc \in {"idle", "done"}
    /\ \E doc \in InitializeDocs, domain \in Domains :
          initialize' = [NoInitialize EXCEPT !.pc = "domain", !.config = doc,
                                             !.before = doc, !.domain = domain]
    /\ UNCHANGED <<repository, verify, stats>>

\* OnInitializeDomain without the test: the keys are requested for any domain.
OnInitializeAnyDomain ==
    /\ initialize.pc = "domain"
    /\ initialize' = [initialize EXCEPT !.pc = "keys"]
    /\ UNCHANGED <<repository, verify, stats>>

\* if not domain: raise ValueError
OnInitializeDomain ==
    /\ initialize.pc = "domain"
    /\ initialize' =
          IF initialize.domain \in {"None", ""}
          THEN [initialize EXCEPT !.pc = "done", !.ret = "ValueError"]
          ELSE [initialize EXCEPT !.pc = "keys"]
    /\ UNCHANGED <<repository, verify, stats>>

\* priv_key, pub_key = docker.generate_x25519_keys(): a key pair, or
\* DockerOperationError (the daemon fails) or KeyGenerationError (the command
\* fails, or its output holds no keys).
GenerateX25519Keys ==
    /\ initialize.pc = "keys"
    /\ \/ \E pair \in KeyPairs :
             initialize' = [initialize EXCEPT
                               !.pc = "write", !.keys = pair,
                               !.trace = Append(@, "generate_x25519_keys")]
       \/ \E e \in {"DockerOperationError", "KeyGenerationError"} :
             initialize' = [initialize EXCEPT
                               !.pc = "done", !.ret = e,
                               !.trace = Append(@, "generate_x25519_keys")]
    /\ UNCHANGED <<repository, verify, stats>>

\* The rest of on_initialize: a short id, find_inbound (XrayError when nothing
\* matches), inbound['streamSettings']['realitySettings'] (KeyError when the
\* key is missing), the four assignments and the returned mapping.
OnInitializeWrite ==
    /\ initialize.pc = "write"
    /\ \E short_id \in ShortIds :
          LET doc == initialize.config
              i == FindVlessInbound(doc)
          IN initialize' =
                IF i = 0
                THEN [initialize EXCEPT !.pc = "done", !.ret = "XrayError"]
                ELSE IF "realitySettings" \notin DOMAIN doc[i]
                THEN [initialize EXCEPT !.pc = "done", !.ret = "KeyError"]
                ELSE [initialize EXCEPT
                         !.pc = "done",
                         !.ret = "ok",
                         !.env = [XRAY_PROTOCOL |-> "vless-reality",
                                  XRAY_PUB_KEY |-> initialize.keys[2]],
                         !.config = [doc EXCEPT ![i].realitySettings =
                             [dest |-> <<initialize.domain, 443>>,
                              privateKey |-> initialize.keys[1],
                              serverNames |-> <<initialize.domain>>,
                              shortIds |-> <<short_id>>]]]
    /\ UNCHANGED <<repository, verify, stats>>

\* ------------------------------------------------------------------ DomainVerifier

\* IPv4 addresses socket.gethostbyname may return: this server's own public
\* address, a public address, and addresses of the local machine.
ServerIp == <<203, 0, 113, 7>>
PublicIp == <<93, 184, 216, 34>>
Localhost == <<127, 0, 0, 1>>
Localname == <<127, 0, 1, 1>>
Unspecified == <<0, 0, 0, 0>>

Addresses == {ServerIp, PublicIp, Localhost, Localname, Unspecified}

\* if target_ip in ("127.0.0.1", "::1", "0.0.0.0"); gethostbyname returns IPv4
\* addresses only.
LocalLiterals == {Localhost, Unspecified}

\* What the probed host does: how its name resolves, how port 443 answers, and
\* what a handshake with it ends in.
Hosts ==
    [dns : Addresses \cup {<<>>},
     tcp : {"ok", "timeout", "OSError"},
     tls : {"TLSv1.3", "TLSv1.2", "TLSv1.1", "SSLError", "timeout"},
     alpn : {"h2", "http/1.1", "None"}]

\* verify returns (ok, msg).
VerifyReturn(ok, msg) == [verify EXCEPT !.pc = "done", !.ret = ok, !.msg = msg]

\* A caller probes a host, with this server's address as forbidden_ip or
\* without one (<<>> for None).
CallVerify ==
    /\ verify.pc \in {"idle", "done"}
    /\ \E host \in Hosts, forbidden_ip \in {<<>>, ServerIp} :
          verify' = [NoVerify EXCEPT !.pc = "resolve", !.host = host,
                                     !.forbidden_ip = forbidden_ip]
    /\ UNCHANGED <<repository, initialize, stats>>

\* Gethostbyname without the forbidden_ip test.
GethostbynameAnyIp ==
    /\ verify.pc = "resolve"
    /\ verify' =
          IF verify.host.dns = <<>>
          THEN VerifyReturn(FALSE, "DNS resolution failed")
          ELSE IF verify.host.dns \in LocalLiterals
          THEN VerifyReturn(FALSE, "local/loopback address")
          ELSE [verify EXCEPT !.pc = "connect", !.target_ip = verify.host.dns]
    /\ UNCHANGED <<repository, initialize, stats>>

\* target_ip = socket.gethostbyname(hostname) and the two tests on target_ip.
Gethostbyname ==
    /\ verify.pc = "resolve"
    /\ verify' =
          IF verify.host.dns = <<>>
          THEN VerifyReturn(FALSE, "DNS resolution failed")
          ELSE IF verify.forbidden_ip # <<>> /\ verify.host.dns = verify.forbidden_ip
          THEN [VerifyReturn(FALSE, "routing loop") EXCEPT
                   !.target_ip = verify.host.dns]
          ELSE IF verify.host.dns \in LocalLiterals
          THEN [VerifyReturn(FALSE, "local/loopback address") EXCEPT
                   !.target_ip = verify.host.dns]
          ELSE [verify EXCEPT !.pc = "connect", !.target_ip = verify.host.dns]
    /\ UNCHANGED <<repository, initialize, stats>>

\* socket.create_connection((hostname, 443), timeout=timeout)
CreateConnection ==
    /\ verify.pc = "connect"
    /\ verify' =
          LET v == [verify EXCEPT !.trace = Append(@, "connect")]
          IN IF verify.host.tcp = "timeout"
             THEN [v EXCEPT !.pc = "done", !.ret = FALSE, !.msg = "timed out"]
             ELSE IF verify.host.tcp = "OSError"
             THEN [v EXCEPT !.pc = "done", !.ret = FALSE, !.msg = "Network error"]
             ELSE [v EXCEPT !.pc = "handshake"]
    /\ UNCHANGED <<repository, initialize, stats>>

\* context.wrap_socket(sock, server_hostname=hostname) and the tests on the
\* negotiated version and ALPN protocol.
WrapSocket ==
    /\ verify.pc = "handshake"
    /\ verify' =
          LET v == [verify EXCEPT !.trace = Append(@, "handshake"), !.pc = "done"]
              tls == verify.host.tls
          IN IF tls = "SSLError"
             THEN [v EXCEPT !.ret = FALSE, !.msg = "SSL Handshake failed"]
             ELSE IF tls = "timeout"
             THEN [v EXCEPT !.ret = FALSE, !.msg = "timed out"]
             ELSE IF tls \notin {"TLSv1.3", "TLSv1.2"}
             THEN [v EXCEPT !.ret = FALSE, !.msg = "Unsupported TLS version"]
             ELSE IF verify.host.alpn # "h2"
             THEN [v EXCEPT !.ret = FALSE, !.msg = "HTTP/2 not supported"]
             ELSE [v EXCEPT !.ret = TRUE, !.msg = "Compatible!"]
    /\ UNCHANGED <<repository, initialize, stats>>

\* ------------------------------------------------------------------ get_traffic_stats

\* entry.get("value", 0): a JSON number, a string of decimal digits (both with
\* the number n), or a string that spells no integer.
IntValue(n) == [kind |-> "int", n |-> n]
DigitsValue(n) == [kind |-> "digits", n |-> n]
TextValue == [kind |-> "text", n |-> 0]

StatValues == {IntValue(100), DigitsValue(200), TextValue}

\* entry.get("name", ""), as name.split(">>>") cuts it.
StatNames ==
    { <<"user", "alice", "traffic", "uplink">>,
      <<"user", "alice", "traffic", "downlink">>,
      <<"user", "bob", "traffic", "downlink">>,
      <<"inbound", "api", "traffic", "uplink">> }

StatEntries == [name : StatNames, value : StatValues]

\* Entries in the "stat" list of a dump.
MaxEntries == 2

Dumps == UNION {[1..n -> StatEntries] : n \in 0..MaxEntries}

\* "user>>>" in name and ">>>traffic>>>" in name, on the parts of the name.
IsUserTraffic(parts) ==
    /\ \E k \in 1..(Len(parts) - 1) : parts[k] = "user"
    /\ \E k \in 2..(Len(parts) - 1) : parts[k] = "traffic"

\* int(value) raises ValueError for a string that spells no integer.
IntRaises(value) == value.kind = "text"

\* {'up': 0, 'down': 0}
NoTraffic == [down |-> 0, up |-> 0]

\* stats[email] = {'up': 0, 'down': 0} for a new email, then the assignment
\* to 'up' or 'down'.
WithStat(dict, email, direction, n) ==
    LET old == IF email \in DOMAIN dict THEN dict[email] ELSE NoTraffic
        new == IF direction = "uplink" THEN [old EXCEPT !.up = n]
               ELSE IF direction = "downlink" THEN [old EXCEPT !.down = n]
               ELSE old
    IN [e \in (DOMAIN dict) \cup {email} |-> IF e = email THEN new ELSE dict[e]]

\* A caller asks for the traffic counters while the API holds some dump.
CallGetTrafficStats ==
    /\ stats.pc \in {"idle", "done"}
    /\ \E dump \in Dumps :
          stats' = [NoStats EXCEPT !.pc = "exec", !.output = dump]
    /\ UNCHANGED <<repository, initialize, verify>>

\* get_traffic_stats up to the call of _parse_stats: DockerOperationError
\* when the container is not running or the query exits with an error.
ExecRun ==
    /\ stats.pc = "exec"
    /\ \/ stats' = [stats EXCEPT !.pc = "done", !.ret = "DockerOperationError",
                                 !.exit_code = 1]
       \/ stats' = [stats EXCEPT !.pc = "parse", !.i = 1]
    /\ UNCHANGED <<repository, initialize, verify>>

\* ParseEntry with int(value) guarded: a value that is no integer counts 0.
ParseEntryGuarded ==
    /\ stats.pc = "parse"
    /\ stats' =
          IF stats.i > Len(stats.output)
          THEN [stats EXCEPT !.pc = "done", !.ret = "ok"]
          ELSE LET entry == stats.output[stats.i]
                   parts == entry.name
               IN IF IsUserTraffic(parts) /\ Len(parts) >= 4
                  THEN [stats EXCEPT
                           !.i = @ + 1,
                           !.stats = WithStat(@, parts[2], parts[4],
                               IF IntRaises(entry.value) THEN 0 ELSE entry.value.n)]
                  ELSE [stats EXCEPT !.i = @ + 1]
    /\ UNCHANGED <<repository, initialize, verify>>

\* One turn of the loop of _parse_stats, and its return.  An exception out of
\* int(value) ends the loop; get_traffic_stats catches it and raises
\* DockerOperationError.
ParseEntry ==
    /\ stats.pc = "parse"
    /\ stats' =
          IF stats.i > Len(stats.output)
          THEN [stats EXCEPT !.pc = "done", !.ret = "ok"]
          ELSE LET entry == stats.output[stats.i]
                   parts == entry.name
               IN IF IsUserTraffic(parts) /\ Len(parts) >= 4
                  THEN IF parts[4] \in {"uplink", "downlink"} /\ IntRaises(entry.value)
                       THEN [stats EXCEPT !.pc = "done",
                                          !.ret = "DockerOperationError",
                                          !.stats = WithStat(@, parts[2], "", 0)]
                       ELSE [stats EXCEPT
                                !.i = @ + 1,
                                !.stats = WithStat(@, parts[2], parts[4],
                                                   entry.value.n)]
                  ELSE [stats EXCEPT !.i = @ + 1]
    /\ UNCHANGED <<repository, initialize, verify>>

\* ------------------------------------------------------------------ specification

\* The steps of ConfigRepository.atomic_write.
AtomicWrite(p) ==
    \/ CallAtomicWrite(p)
    \/ Flock(p)
    \/ CreateBackup(p)
    \/ Evict(p)
    \/ AwLoad(p)
    \/ AwYield(p)
    \/ SaveOpen(p)
    \/ SaveDump(p)
    \/ AwUnlock(p)

\* The steps of the services.
Services(p) ==
    \/ CallAddUser(p)
    \/ AddUser(p)
    \/ CallRemoveUser(p)
    \/ RemoveUser(p)
    \/ CallGetUsers(p)
    \/ GetUsers(p)
    \/ CallGetUserLink(p)
    \/ GetUserLink(p)
    \/ CallRestoreBackup(p)
    \/ RestoreCheck(p)
    \/ RestoreCopy(p)
    \/ CallGetBackups(p)
    \/ GetBackups(p)
    \/ DockerRestart(p)
    \/ Killed(p)

Step(p) == AtomicWrite(p) \/ Services(p)

\* The steps of the user commands: add, remove, list, link.
Users(p) ==
    \/ CallAddUser(p)
    \/ AddUser(p)
    \/ CallRemoveUser(p)
    \/ RemoveUser(p)
    \/ CallGetUsers(p)
    \/ GetUsers(p)
    \/ CallGetUserLink(p)
    \/ GetUserLink(p)
    \/ SaveOpen(p)
    \/ SaveDump(p)
    \/ DockerRestart(p)
    \/ Killed(p)

\* Two terminal sessions, any operation.
Next == \E p \in Procs : Step(p)

Spec == Init /\ [][Next]_vars

\* Two terminal sessions running user commands.
NextUsers == \E p \in Procs : Users(p)

SpecUsers == InitUsers /\ [][NextUsers]_vars

\* One terminal session running user commands on any configuration.
NextDocs == Users("p1")

SpecDocs == InitDocs /\ [][NextDocs]_vars

\* Two terminal sessions, both inside atomic_write scopes.
NextLock == \E p \in Procs : AtomicWrite(p)

SpecLock == Init /\ [][NextLock]_vars

\* Every step inside an atomic_write call is taken in the end: the scheduler is
\* fair to each session and the caller's block ends (AwYield).  A session
\* waiting in flock gets the lock if it is free again and again.
FairLock ==
    \A p \in Procs :
        /\ SF_vars(Flock(p))
        /\ WF_vars(CreateBackup(p))
        /\ WF_vars(Evict(p))
        /\ WF_vars(AwLoad(p))
        /\ WF_vars(AwYield(p))
        /\ WF_vars(SaveOpen(p))
        /\ WF_vars(SaveDump(p))
        /\ WF_vars(AwUnlock(p))

\* Two terminal sessions inside atomic_write scopes, under a fair scheduler.
SpecLive == Init /\ [][NextLock]_vars /\ FairLock

\* One terminal session alone, any operation.
NextSeq == Step("p1")

SpecSeq == Init /\ [][NextSeq]_vars

\* A server before `xctl init`, with no session at work on the repository.
InitTools ==
    /\ InitCommon
    /\ ~win32
    /\ pubKey = KeyUrlSafe
    /\ liveFile = NoFile
    /\ backups = <<>>
    /\ successes = 0
    /\ latest = 0
    /\ NoTools

\* One on_initialize call after the other.
NextInitialize ==
    \/ CallOnInitialize
    \/ OnInitializeDomain
    \/ GenerateX25519Keys
    \/ OnInitializeWrite

SpecInitialize == InitTools /\ [][NextInitialize]_vars

\* One verify call after the other.
NextVerify ==
    \/ CallVerify
    \/ Gethostbyname
    \/ CreateConnection
    \/ WrapSocket

SpecVerify == InitTools /\ [][NextVerify]_vars

\* One get_traffic_stats call after the other.
NextStats ==
    \/ CallGetTrafficStats
    \/ ExecRun
    \/ ParseEntry

SpecStats == InitTools /\ [][NextStats]_vars

\* ------------------------------------------------------------------ properties

Did(p, event) == \E i \in 1..Len(trace[p]) : trace[p][i] = event

Ended(p) == pc[p] = "done"

Min(a, b) == IF a < b THEN a ELSE b

\* Between atomic_write's lock acquisition and its lock release: the backup,
\* load, caller-block and save steps.
InScope(p) ==
    /\ op[p].name = "atomic_write"
    /\ pc[p] \in {"aw_backup", "aw_evict", "aw_load", "aw_yield", "save_open",
                  "save_dump", "aw_unlock"}

C2_LockReleasedOnExit ==
    \A p \in Procs : pc[p] \in {"idle", "done"} => lockHolder # p

\* Both sessions left atomic_write by an exception, one out of the caller's
\* block and one out of load or save, and the lock is free.
C2_Witness ==
    /\ ~win32
    /\ lockHolder = NoProc
    /\ \E p, q \in Procs :
          /\ Ended(p) /\ op[p].name = "atomic_write" /\ ret[p] = "BlockError"
          /\ Ended(q) /\ op[q].name = "atomic_write"
          /\ ret[q] \in {"OSError", "JsonDecodeError", "ConfigNotFoundError"}

\* C3: where fcntl is available, every step that changes the live config file
\* is taken by the invocation that holds the exclusive lock.
C3_WritesOnlyUnderLock ==
    [][(~win32 /\ liveFile' # liveFile) =>
           \E p \in Procs : lockHolder = p /\ pc'[p] # pc[p]]_vars

\* C4: two add_user invocations for distinct aliases, both absent when the
\* first of them started, with no other invocation since, that both returned a
\* link, leave both aliases in the client list on disk.
C4_NoLostUpdate ==
    \A p, q \in Procs :
        ( /\ p # q
          /\ op[p].name = "add_user" /\ op[q].name = "add_user"
          /\ op[p].email # op[q].email
          /\ Ended(p) /\ Ended(q)
          /\ ret[p] = "ok" /\ ret[q] = "ok"
          /\ pre[p].seq + 1 = pre[q].seq /\ pre[q].seq = calls
          /\ {op[p].email, op[q].email} \cap FileAliases(pre[p].file) = {} )
        => {op[p].email, op[q].email} \subseteq FileAliases(liveFile)

\* An atomic_write call on an existing config file whose caller's block raised.
BlockRaised(p) ==
    /\ op[p].name = "atomic_write"
    /\ Ended(p)
    /\ ret[p] = "BlockError"
    /\ Exists(pre[p].file)

\* C5 as stated: after an atomic_write call on an existing config file whose
\* block raised, the live file is what it was before the call and there is
\* exactly one backup file more than before the call.
C5_RaisingBlockOneMoreBackup ==
    \A p \in Procs :
        BlockRaised(p) =>
            /\ liveFile = pre[p].file
            /\ Cardinality(DOMAIN backups) = Cardinality(DOMAIN pre[p].dir) + 1

\* C5, amended: after such a call the live file is what it was before the
\* call, the backup named by the second of the call holds that content, no
\* other backup appeared, and unless a deletion failed the number of backup
\* files is the number of distinct names, capped at MaxBackups.
C5_RaisingBlockKeepsFileAndBackup ==
    \A p \in Procs :
        BlockRaised(p) =>
            /\ liveFile = pre[p].file
            /\ taken[p].ts \in DOMAIN backups
            /\ backups[taken[p].ts] = pre[p].file
            /\ DOMAIN backups \subseteq (DOMAIN pre[p].dir) \cup {taken[p].ts}
            /\ Cardinality(DOMAIN backups) <= Cardinality(DOMAIN pre[p].dir) + 1
            /\ ~unlinks.latestFailed =>
                  Cardinality(DOMAIN backups) =
                      Min(Cardinality((DOMAIN pre[p].dir) \cup {taken[p].ts}),
                          MaxBackups)

\* The block changed the document in memory and then raised; the name of the
\* backup was new.
C5_Witness ==
    \E p \in Procs :
        /\ BlockRaised(p)
        /\ config[p] # pre[p].file.doc
        /\ taken[p].ts \notin DOMAIN pre[p].dir

\* C6: an add_user or remove_user that has overwritten the live file created,
\* in the same invocation, a backup holding the file's content from before.
C6_BackupBeforeMutation ==
    \A p \in Procs :
        (op[p].name \in {"add_user", "remove_user"} /\ Did(p, "write"))
        => (taken[p] # NoBackup /\ taken[p].content = pre[p].file)

Evicting == \E p \in Procs : pc[p] = "aw_evict"

C8_ExactlyTenRemain ==
    (successes > MaxBackups /\ ~Evicting /\ unlinks.failed = {})
    => Cardinality(DOMAIN backups) = MaxBackups

\* A restore_backup invocation that has copied its backup.
Restored(p) == op[p].name = "restore_backup" /\ Did(p, "copy")

\* C9: once restore_backup has copied an existing backup, the live file holds
\* that backup's content, and the backups are the same files with the same
\* content as before the call.
C9_RestoreCopiesBackup ==
    \A p \in Procs :
        Restored(p) =>
            /\ liveFile = pre[p].dir[op[p].path]
            /\ backups = pre[p].dir

\* A restore has ended and changed the live file.
C9_Witness ==
    \E p \in Procs :
        /\ Restored(p) /\ Ended(p) /\ ret[p] = "ok"
        /\ liveFile # pre[p].file
        /\ Cardinality(DOMAIN backups) = InitSecond

\* C10: a restore_backup call with a path that names no file ends with
\* ConfigNotFoundError, the live file and the backups as they were, and no
\* restart of the container.
C10_RestoreMissingBackup ==
    \A p \in Procs :
        ( /\ op[p].name = "restore_backup"
          /\ Ended(p)
          /\ op[p].path \notin DOMAIN pre[p].dir )
        => /\ ret[p] = "ConfigNotFoundError"
           /\ liveFile = pre[p].file
           /\ backups = pre[p].dir
           /\ ~Did(p, "restart")

\* A restore of a missing path has ended while backups exist.
C10_Witness ==
    \E p \in Procs :
        /\ op[p].name = "restore_backup"
        /\ Ended(p)
        /\ op[p].path \notin DOMAIN backups
        /\ backups # <<>>
        /\ Exists(liveFile)

\* How many times the invocation did the event.
Times(p, event) == Cardinality({i \in 1..Len(trace[p]) : trace[p][i] = event})

\* C11: a restore_backup call calls restart() at most once, and only after the
\* copy, with the live file holding the content of the chosen backup; once the
\* copy has succeeded and the call has ended, restart() has been called.
C11_RestartOnceAfterCopy ==
    \A p \in Procs :
        op[p].name = "restore_backup" =>
            /\ Times(p, "restart") <= 1
            /\ Did(p, "restart") =>
                  /\ trace[p] = <<"copy", "restart">>
                  /\ liveFile = pre[p].dir[op[p].path]
            /\ (Ended(p) /\ Did(p, "copy")) => Times(p, "restart") = 1
            /\ (Ended(p) /\ ret[p] = "ok") => trace[p] = <<"copy", "restart">>

\* A restore has replaced the live file and then restarted the container.
C11_Witness ==
    \E p \in Procs :
        /\ op[p].name = "restore_backup"
        /\ Ended(p)
        /\ ret[p] = "ok"
        /\ trace[p] = <<"copy", "restart">>
        /\ liveFile # pre[p].file

\* The clients of the first VLESS+Reality inbound of a file, <<>> when there is
\* none.
FileClients(file) ==
    IF file.kind = "json" /\ FindVlessInbound(file.doc) # 0
    THEN file.doc[FindVlessInbound(file.doc)].clients
    ELSE <<>>

\* The session's previous call was this one and it returned (True for
\* remove_user, the link or the list for the others).
After(p, name) ==
    /\ prev[p].op.name = name
    /\ prev[p].ret \in {"ok", "True"}

\* C12: get_users right after an add_user(A) that returned a link, A not being
\* in the client list before: the list has exactly one record with email A,
\* its id is the id of no other record, and without it the list is the client
\* list as it was before the add_user call.
C12_AddThenList ==
    \A p \in Procs :
        ( /\ op[p].name = "get_users"
          /\ Ended(p)
          /\ After(p, "add_user") )
        => LET A == prev[p].op.email
               before == FileClients(prev[p].file)
               at == {k \in 1..Len(users[p]) : users[p][k].email = A}
           IN /\ ret[p] = "ok"
              /\ Cardinality(at) = 1
              /\ \A k \in at : \A j \in 1..Len(users[p]) :
                     j # k => users[p][j].id # users[p][k].id
              /\ Without(users[p], A) = before

\* add_user has added a second client and get_users has listed both.
C12_Witness ==
    \E p \in Procs :
        /\ op[p].name = "get_users"
        /\ Ended(p)
        /\ After(p, "add_user")
        /\ Len(users[p]) = 2

\* The session's previous call had the same name and argument as this one.
Repeated(p) == prev[p].op = op[p]

\* C13: add_user(A) on a file whose client list has a record with email A ends
\* with ValueError (already exists), the live file as it was and no call to the
\* container; the same call made again right after ends the same way, with the
\* file still as before the first call.
C13_AddExistingFails ==
    \A p \in Procs :
        ( /\ op[p].name = "add_user"
          /\ Ended(p)
          /\ op[p].email \in FileAliases(pre[p].file) )
        => /\ ret[p] = "ValueError"
           /\ liveFile = pre[p].file
           /\ trace[p] = <<>>
           /\ (Repeated(p) /\ prev[p].ret = "ValueError") =>
                  liveFile = prev[p].file

\* add_user(A) has failed twice in a row on a list that holds A.
C13_Witness ==
    \E p \in Procs :
        /\ op[p].name = "add_user"
        /\ Ended(p)
        /\ op[p].email \in FileAliases(pre[p].file)
        /\ Repeated(p)
        /\ prev[p].ret = "ValueError"
        /\ ret[p] = "ValueError"

\* C14: whenever config.json holds a document, no two clients of its first
\* VLESS+Reality inbound have the same email, whatever add_user and remove_user
\* calls two sessions have made and however their steps interleaved.
C14_AliasesUnique ==
    liveFile.kind = "json" =>
        LET clients == FileClients(liveFile)
        IN \A j, k \in 1..Len(clients) :
               clients[j].email = clients[k].email => j = k

\* Two sessions have both added the same email, neither seeing the other's
\* record, and the file holds a document.
C14_Witness ==
    \E p, q \in Procs :
        /\ p # q
        /\ op[p].name = "add_user" /\ op[q].name = "add_user"
        /\ op[p].email = op[q].email
        /\ Did(p, "write") /\ Did(q, "write")
        /\ op[p].email \in FileAliases(liveFile)

\* C15: remove_user(A) right after a remove_user(A) that returned, True or
\* False: the second call returns False, raises nothing, and leaves the file
\* and the container alone.
C15_RemoveTwice ==
    \A p \in Procs :
        ( /\ op[p].name = "remove_user"
          /\ Ended(p)
          /\ Repeated(p)
          /\ prev[p].ret \in {"True", "False"} )
        => /\ ret[p] = "False"
           /\ liveFile = pre[p].file
           /\ trace[p] = <<>>

\* The first remove_user(A) removed A, the second found nothing to remove.
C15_Witness ==
    \E p \in Procs :
        /\ op[p].name = "remove_user"
        /\ Ended(p)
        /\ Repeated(p)
        /\ prev[p].ret = "True"
        /\ ret[p] = "False"
        /\ op[p].email \in FileAliases(prev[p].file)

\* C16: a remove_user(A) call that returns, returns True exactly when a client
\* with email A was in the list it found; it sends the container the
\* reload_config signal exactly when it removed a client, and when A was not
\* there it does nothing to the container.
C16_RemoveReloadsIffRemoved ==
    \A p \in Procs :
        ( /\ op[p].name = "remove_user"
          /\ Ended(p)
          /\ ret[p] \in {"True", "False"} )
        => LET present == op[p].email \in FileAliases(pre[p].file)
           IN /\ ret[p] = "True" <=> present
              /\ Did(p, "reload") <=> present
              /\ ~present => trace[p] = <<>>

\* C17: an add_user call that returns its link has written the document and
\* then sent the container the reload_config signal, once, and has not
\* restarted the container.
C17_AddReloadsAfterWrite ==
    \A p \in Procs :
        ( /\ op[p].name = "add_user"
          /\ Ended(p)
          /\ ret[p] = "ok" )
        => /\ Times(p, "reload") = 1
           /\ ~Did(p, "restart")
           /\ trace[p] = <<"write", "reload">>
           /\ link[p] # <<>>

\* The file loads and has a VLESS+Reality inbound.
HasClientList(file) == file.kind = "json" /\ FindVlessInbound(file.doc) # 0

\* C18: a get_user_link(A) call leaves config.json and the backups as they
\* were, holds no lock and calls nothing on the container; on a file with a
\* client list it ends with ValueError (not found) exactly when no client has
\* email A, and otherwise returns a link that carries the id stored with A.
C18_LinkIsReadOnly ==
    \A p \in Procs :
        ( /\ op[p].name = "get_user_link"
          /\ Ended(p) )
        => LET clients == FileClients(pre[p].file)
               present == op[p].email \in Emails(clients)
           IN /\ liveFile = pre[p].file
              /\ backups = pre[p].dir
              /\ lockHolder = NoProc
              /\ trace[p] = <<>>
              /\ HasClientList(pre[p].file) =>
                    /\ ret[p] = "ValueError" <=> ~present
                    /\ ret[p] = "ok" <=> present
                    /\ present =>
                          \E k \in 1..Len(clients) :
                              /\ clients[k].email = op[p].email
                              /\ link[p][1] = <<"vless://", clients[k].id>>

\* get_user_link has returned the link of a client that add_user stored.
C18_Witness ==
    \E p \in Procs :
        /\ op[p].name = "get_user_link"
        /\ Ended(p)
        /\ ret[p] = "ok"
        /\ After(p, "add_user")
        /\ prev[p].op.email = op[p].email

\* The positions of a document's inbounds that are VLESS with Reality security.
Matching(doc) ==
    {i \in 1..Len(doc) : doc[i].protocol = "vless" /\ doc[i].security = "reality"}

\* The first of them in document order.
Foremost(doc) == CHOOSE i \in Matching(doc) : \A j \in Matching(doc) : i <= j

\* C19: on a file that loads, a user command ends with XrayError (no inbound
\* found) exactly when no inbound of the document is VLESS with Reality
\* security, a document without inbounds included; otherwise the inbound it
\* works on is the first such inbound in document order: get_users returns that
\* inbound's clients, and what add_user and remove_user do to the inbound they
\* were handed is in the document they save, at that position and nowhere else.
C19_FirstMatchByReference ==
    \A p \in Procs :
        ( /\ op[p].name \in ServiceCalls
          /\ Ended(p)
          /\ LoadError(pre[p].file) = "" )
        => LET doc == pre[p].file.doc
               m == Foremost(doc)
           IN /\ ret[p] = "XrayError" <=> Matching(doc) = {}
              /\ (op[p].name = "get_users" /\ ret[p] = "ok") =>
                    users[p] = doc[m].clients
              /\ (op[p].name = "add_user" /\ Did(p, "write")) =>
                    liveFile = Json([doc EXCEPT ![m].clients =
                                  Append(@, Client(op[p].email, newUuid[p]))])
              /\ (op[p].name = "remove_user" /\ Did(p, "write")) =>
                    liveFile = Json([doc EXCEPT ![m].clients =
                                  Without(@, op[p].email)])

\* add_user has written into the first of two matching inbounds with
\* different clients, and the second is as it was.
C19_Witness ==
    \E p \in Procs :
        /\ op[p].name = "add_user"
        /\ Ended(p)
        /\ Did(p, "write")
        /\ pre[p].file.kind = "json"
        /\ Matching(pre[p].file.doc) = 1..2
        /\ pre[p].file.doc[1].clients # pre[p].file.doc[2].clients
        /\ liveFile.kind = "json"
        /\ liveFile.doc[1] # pre[p].file.doc[1]
        /\ liveFile.doc[2] = pre[p].file.doc[2]

\* The value of a link's parameter, <<>> when the link has no such parameter.
Param(l, name) ==
    IF \E i \in 1..Len(l) : l[i][1] = name
    THEN l[CHOOSE i \in 1..Len(l) : l[i][1] = name][2]
    ELSE <<>>

\* C20: the link add_user(A) returns ends with '#A' and its pbk parameter is
\* urllib.parse.quote of the configured public key; get_user_link(A) right
\* after returns the same link.
C20_LinkQuotesKey ==
    \A p \in Procs :
        /\ (op[p].name = "add_user" /\ Ended(p) /\ ret[p] = "ok") =>
              /\ link[p][Len(link[p])] = <<"#", op[p].email>>
              /\ Param(link[p], "pbk") = Quote(pubKey)
        /\ ( /\ op[p].name = "get_user_link"
             /\ Ended(p)
             /\ After(p, "add_user")
             /\ prev[p].op.email = op[p].email )
           => /\ ret[p] = "ok"
              /\ link[p] = prev[p].link

\* C21: an on_initialize call without a domain (None or empty) ends with
\* ValueError and has not requested key generation; a call whose key
\* generation failed ends with that failure; in both cases the document is as
\* it was handed in.  A call that returned has set, in the first VLESS+Reality
\* inbound and in no other, privateKey to the generated private key, shortIds
\* to one short id, dest to domain:443 and serverNames to [domain], and its
\* mapping carries the generated public key.
C21_OnInitialize ==
    LET c == initialize
        i == FindVlessInbound(c.before)
    IN c.pc = "done" =>
          /\ c.domain \in {"None", ""} =>
                /\ c.ret = "ValueError"
                /\ c.trace = <<>>
                /\ c.config = c.before
          /\ c.ret \in {"DockerOperationError", "KeyGenerationError"} =>
                /\ c.trace = <<"generate_x25519_keys">>
                /\ c.config = c.before
          /\ c.ret = "ok" =>
                /\ c.keys \in KeyPairs
                /\ i # 0
                /\ \E sid \in ShortIds :
                      c.config = [c.before EXCEPT ![i].realitySettings =
                          [dest |-> <<c.domain, 443>>,
                           privateKey |-> c.keys[1],
                           serverNames |-> <<c.domain>>,
                           shortIds |-> <<sid>>]]
                /\ c.env.XRAY_PUB_KEY = c.keys[2]

\* on_initialize has returned after rewriting the settings an earlier
\* initialization left in the second inbound of the document.
C21_Witness ==
    /\ initialize.pc = "done"
    /\ initialize.ret = "ok"
    /\ FindVlessInbound(initialize.before) = 2
    /\ initialize.before[2].realitySettings = UsedReality
    /\ initialize.config # initialize.before
    /\ initialize.env.XRAY_PUB_KEY = "pub2"

\* C22: a verify call with a forbidden_ip on a host whose name resolves to
\* that address returns ok = False, whatever the host's port 443 and its TLS
\* stack would answer, and has attempted neither a TCP connection nor a
\* handshake.
C22_ForbiddenAddressRejected ==
    ( /\ verify.pc = "done"
      /\ verify.forbidden_ip # <<>>
      /\ verify.host.dns = verify.forbidden_ip )
    => /\ verify.ret = FALSE
       /\ verify.trace = <<>>

\* This server itself, answering on port 443 with TLS 1.3 and h2.
SuitableServer == [alpn |-> "h2", dns |-> ServerIp, tcp |-> "ok", tls |-> "TLSv1.3"]

\* verify has rejected this server's own address although the host offers
\* TLS 1.3 with h2.
C22_Witness ==
    /\ verify.pc = "done"
    /\ verify.forbidden_ip = ServerIp
    /\ verify.host = SuitableServer
    /\ verify.ret = FALSE
    /\ verify.msg = "routing loop"

\* 127.0.0.0/8 and 0.0.0.0.
LoopbackOrUnspecified(ip) == ip[1] = 127 \/ ip = Unspecified

\* C23: verify always returns (it raises nothing), and it returns ok = True
\* exactly when the name resolves, the address is neither forbidden_ip nor a
\* loopback or unspecified address, the TCP connection and the handshake
\* succeed, the negotiated version is TLS 1.2 or 1.3 and the ALPN protocol is
\* h2.
C23_OkIffSuitable ==
    verify.pc = "done" =>
        /\ verify.ret \in BOOLEAN
        /\ verify.ret = TRUE <=>
              /\ verify.host.dns # <<>>
              /\ ~(verify.forbidden_ip # <<>> /\ verify.host.dns = verify.forbidden_ip)
              /\ ~LoopbackOrUnspecified(verify.host.dns)
              /\ verify.host.tcp = "ok"
              /\ verify.host.tls \in {"TLSv1.3", "TLSv1.2"}
              /\ verify.host.alpn = "h2"

\* What the counters are after the first n entries of a dump, when an entry
\* whose value is no integer counts 0.
RECURSIVE Tolerant(_, _)
Tolerant(dump, n) ==
    IF n = 0 THEN <<>>
    ELSE LET entry == dump[n]
             rest == Tolerant(dump, n - 1)
         IN IF entry.name[1] = "user"
            THEN WithStat(rest, entry.name[2], entry.name[4],
                          IF entry.value.kind = "text" THEN 0 ELSE entry.value.n)
            ELSE rest

\* C24: a get_traffic_stats call whose query ran returns a result, in which
\* every user>>>{alias}>>>traffic>>>{uplink|downlink} entry of the dump is
\* under its alias and direction with its integer value, or with 0 when its
\* value is no integer.
C24_StatsTolerateBadValues ==
    (stats.pc = "done" /\ stats.exit_code = 0) =>
        /\ stats.ret = "ok"
        /\ stats.stats = Tolerant(stats.output, Len(stats.output))

\* C25: no step of _create_backup ends an atomic_write call: after the copy the
\* call goes on to the eviction loop or to load, every turn of the
\* eviction loop shortens the list of names and leaves the call in the loop,
\* and the loop's exit goes on to load.
C25_BackupNeverBlocks ==
    [][\A p \in Procs :
          /\ (pc[p] = "aw_backup" /\ pc'[p] # pc[p]) =>
                pc'[p] \in {"aw_evict", "aw_load"}
          /\ (pc[p] = "aw_evict" /\ <<pc'[p], blist'[p]>> # <<pc[p], blist[p]>>) =>
                \/ pc'[p] = "aw_evict" /\ Len(blist'[p]) < Len(blist[p])
                \/ pc'[p] = "aw_load" /\ blist'[p] = blist[p]]_vars

\* The list get_backups returned, as the names' timestamps.
Listed(p) == [k \in 1..Len(files[p]) |-> files[p][k].path]

\* C26: the list a get_backups call returned has every backup file once and
\* no other entry, newest timestamp first; it is empty when there is no
\* backup; its first element is the backup created last, if that file is
\* still there, and its last element is the name the eviction loop would pop
\* first.
C26_NewestFirst ==
    \A p \in Procs :
        (op[p].name = "get_backups" /\ Ended(p)) =>
            /\ ret[p] = "ok"
            /\ Len(files[p]) = Cardinality(DOMAIN backups)
            /\ {Listed(p)[k] : k \in 1..Len(files[p])} = DOMAIN backups
            /\ \A j, k \in 1..Len(files[p]) : j < k => Listed(p)[j] > Listed(p)[k]
            /\ backups = <<>> => files[p] = <<>>
            /\ (latest # 0 /\ latest \in DOMAIN backups) => Listed(p)[1] = latest
            /\ backups # <<>> => Listed(p)[Len(files[p])] = Head(Glob(backups))

\* get_backups has listed MaxBackups backups after an atomic_write call
\* created the newest of them.
C26_Witness ==
    \E p \in Procs :
        /\ op[p].name = "get_backups"
        /\ Ended(p)
        /\ Len(files[p]) = MaxBackups
        /\ files[p][1].path = latest
        /\ latest > InitSecond
        /\ files[p][MaxBackups].path = 1

\* C27: an atomic_write call that holds the lock never takes its load step
\* while another invocation's add_user or remove_user is between the open
\* that truncates the live file and the end of its write.
C27_LockedLoadSeesWholeFile ==
    [][\A p \in Procs :
          (lockHolder = p /\ pc[p] = "aw_load" /\ pc'[p] # pc[p]) =>
              ~\E q \in Procs \ {p} :
                  /\ op[q].name \in {"add_user", "remove_user"}
                  /\ pc[q] = "save_dump"]_vars

\* C29: an atomic_write call that created a backup created it under a name no
\* backup had when the call began.
C29_BackupNameUnused ==
    \A p \in Procs :
        (op[p].name = "atomic_write" /\ taken[p] # NoBackup)
        => taken[p].ts \notin DOMAIN pre[p].dir

\* An add_user or remove_user call that wrote the live file and then failed:
\* restart() raised, or the process was killed before restart().
FailedAfterWrite(r) == r \in {"DockerOperationError", "killed"}

\* C30: when restart() fails after add_user or remove_user wrote the live
\* file, the call ends with DockerOperationError, and when it fails or the
\* process is killed there, the live file holds the document the call saved:
\* with the new client for add_user, without the alias for remove_user.  An
\* add_user for the same alias right after such an add_user ends with
\* ValueError (already exists) and writes nothing.
C30_NoRollback ==
    \A p \in Procs :
        /\ ( /\ op[p].name \in {"add_user", "remove_user"}
             /\ Ended(p)
             /\ Did(p, "write")
             /\ ret[p] \notin {"ok", "True"} )
           => /\ Did(p, "restart") => ret[p] = "DockerOperationError"
              /\ FailedAfterWrite(ret[p])
              /\ liveFile = Json(config[p])
              /\ liveFile # pre[p].file
              /\ op[p].name = "add_user" =>
                    \E k \in 1..Len(FileClients(liveFile)) :
                        FileClients(liveFile)[k] = Client(op[p].email, newUuid[p])
              /\ op[p].name = "remove_user" =>
                    op[p].email \notin FileAliases(liveFile)
        /\ ( /\ op[p].name = "add_user"
             /\ Ended(p)
             /\ prev[p].op = op[p]
             /\ FailedAfterWrite(prev[p].ret) )
           => /\ ret[p] = "ValueError"
              /\ trace[p] = <<>>
              /\ liveFile = pre[p].file

\* add_user(A) has been refused after an add_user(A) whose restart failed,
\* on a file that did not have A before.
C30_Witness ==
    \E p \in Procs :
        /\ op[p].name = "add_user"
        /\ Ended(p)
        /\ ret[p] = "ValueError"
        /\ prev[p].op = op[p]
        /\ prev[p].ret = "DockerOperationError"
        /\ op[p].email \notin FileAliases(prev[p].file)

====
